---- MODULE Spec2Model ----
(***************************************************************************)
(* Model of youtube-api-server/main.py: the video-id extractor             *)
(* (YouTubeTools.get_youtube_video_id) and the three request handlers      *)
(* (get_video_data, get_video_captions, get_video_timestamps).             *)
(*                                                                         *)
(* A Python str is modelled as a sequence of one-character strings, so     *)
(* that slicing, splitting, urlparse and the regular expression are        *)
(* computed the way the code computes them.  A message built with an       *)
(* f-string is the concatenation of its pieces; an exception's text is one *)
(* opaque piece.                                                           *)
(***************************************************************************)
EXTENDS Integers, Sequences, FiniteSets, TLC

\* ------------------------------------------------------------------------
\* Characters and elementary str operations
\* ------------------------------------------------------------------------

Uppers == <<"A","B","C","D","E","F","G","H","I","J","K","L","M",
            "N","O","P","Q","R","S","T","U","V","W","X","Y","Z">>

Lowers == <<"a","b","c","d","e","f","g","h","i","j","k","l","m",
            "n","o","p","q","r","s","t","u","v","w","x","y","z">>

Digits == {"0","1","2","3","4","5","6","7","8","9"}

Range(s) == { s[i] : i \in DOMAIN s }

Letters == Range(Uppers) \cup Range(Lowers)

\* urllib.parse.scheme_chars
SchemeChars == Letters \cup Digits \cup {"+", "-", "."}

\* str.lower() on one character
LowerChar(c) ==
  IF c \in Range(Uppers)
  THEN Lowers[CHOOSE i \in DOMAIN Uppers : Uppers[i] = c]
  ELSE c

Lower(s) == [i \in DOMAIN s |-> LowerChar(s[i])]

\* s[i:] with a 1-based i
From(s, i) == SubSeq(s, i, Len(s))

\* s[i:].startswith(p), 1-based i
StartsWithAt(s, i, p) ==
  /\ i + Len(p) - 1 <= Len(s)
  /\ \A k \in 1..Len(p) : s[i + k - 1] = p[k]

StartsWith(s, p) == StartsWithAt(s, 1, p)

\* Position of the first character of s, at or after position i, that is in
\* cs; 0 when there is none (str.find shifted to 1-based positions).
FindFrom(s, i, cs) ==
  IF \E k \in i..Len(s) : s[k] \in cs
  THEN CHOOSE k \in i..Len(s) :
         s[k] \in cs /\ \A j \in i..(k - 1) : s[j] \notin cs
  ELSE 0

Find(s, cs) == FindFrom(s, 1, cs)

\* Position of the last character of s that is in cs; 0 when there is none.
RFind(s, cs) ==
  IF \E k \in 1..Len(s) : s[k] \in cs
  THEN CHOOSE k \in 1..Len(s) :
         s[k] \in cs /\ \A j \in (k + 1)..Len(s) : s[j] \notin cs
  ELSE 0

\* s.partition(c) without the separator: the text before the first c and
\* the text after it; all of s and '' when c does not occur
Partition(s, c) ==
  IF Find(s, {c}) > 0
  THEN <<SubSeq(s, 1, Find(s, {c}) - 1), From(s, Find(s, {c}) + 1)>>
  ELSE <<s, <<>>>>

\* s.split(c): the pieces of s between the occurrences of character c
RECURSIVE Split(_, _)
Split(s, c) ==
  IF c \notin Range(s) THEN <<s>>
  ELSE <<Partition(s, c)[1]>> \o Split(Partition(s, c)[2], c)

\* s.replace(a, b) for single characters
Replace(s, a, b) == [i \in DOMAIN s |-> IF s[i] = a THEN b ELSE s[i]]

\* Optional[str]: None, or a str
None == [some |-> FALSE, val |-> <<>>]

Some(s) == [some |-> TRUE, val |-> s]

\* ------------------------------------------------------------------------
\* urllib.parse, as far as get_youtube_video_id uses it
\* ------------------------------------------------------------------------

\* urllib.parse.uses_params holds '', http, https, ftp and further schemes
\* that the modelled URLs never carry.
UsesParams == { <<>>, <<"h","t","t","p">>, <<"h","t","t","p","s">>,
                <<"f","t","p">> }

\* urlsplit's scheme step: the text before the first ':' is the scheme when
\* it starts with a letter and consists of scheme characters.
SchemeEnd(url) ==
  IF /\ Find(url, {":"}) > 1
     /\ url[1] \in Letters
     /\ \A k \in 1..(Find(url, {":"}) - 1) : url[k] \in SchemeChars
  THEN Find(url, {":"}) ELSE 0

\* scheme, url = url[:i].lower(), url[i+1:]
SplitScheme(url) ==
  IF SchemeEnd(url) > 0
  THEN <<Lower(SubSeq(url, 1, SchemeEnd(url) - 1)), From(url, SchemeEnd(url) + 1)>>
  ELSE <<<<>>, url>>

\* urllib.parse._splitnetloc(url, 2) when url[:2] == '//': the netloc ends
\* before the first of '/', '?' and '#'
SplitNetloc(r) ==
  IF ~StartsWith(r, <<"/", "/">>) THEN <<<<>>, r>>
  ELSE IF FindFrom(r, 3, {"/", "?", "#"}) = 0 THEN <<From(r, 3), <<>>>>
  ELSE <<SubSeq(r, 3, FindFrom(r, 3, {"/", "?", "#"}) - 1),
         From(r, FindFrom(r, 3, {"/", "?", "#"}))>>

\* urllib.parse._splitparams: the ';' is looked for in the last path segment
ParamsAt(p) ==
  IF RFind(p, {"/"}) > 0 THEN FindFrom(p, RFind(p, {"/"}), {";"})
  ELSE Find(p, {";"})

SplitParams(p) ==
  IF ParamsAt(p) = 0 THEN <<p, <<>>>>
  ELSE <<SubSeq(p, 1, ParamsAt(p) - 1), From(p, ParamsAt(p) + 1)>>

\* urlparse(url): scheme, netloc, path, params, query, fragment.  Each step
\* works on what the step before left of the url.
UrlParse5(scheme, netloc, r4, query, fragment) ==
  [scheme   |-> scheme,
   netloc   |-> netloc,
   path     |-> IF scheme \in UsesParams /\ ";" \in Range(r4)
                THEN SplitParams(r4)[1] ELSE r4,
   params   |-> IF scheme \in UsesParams /\ ";" \in Range(r4)
                THEN SplitParams(r4)[2] ELSE <<>>,
   query    |-> query,
   fragment |-> fragment]

\* if '?' in url: url, query = url.split('?', 1)
UrlParse4(scheme, netloc, r3, fragment) ==
  UrlParse5(scheme, netloc, Partition(r3, "?")[1], Partition(r3, "?")[2],
            fragment)

\* if '#' in url: url, fragment = url.split('#', 1)
UrlParse3(scheme, netloc, r2) ==
  UrlParse4(scheme, netloc, Partition(r2, "#")[1], Partition(r2, "#")[2])

\* if url[:2] == '//': netloc, url = _splitnetloc(url, 2)
UrlParse2(scheme, r1) ==
  UrlParse3(scheme, SplitNetloc(r1)[1], SplitNetloc(r1)[2])

UrlParse(url) == UrlParse2(SplitScheme(url)[1], SplitScheme(url)[2])

\* _hostinfo: the netloc after its last '@', up to the first ':'
HostInfo(netloc) ==
  Partition(From(netloc, RFind(netloc, {"@"}) + 1), ":")[1]

\* ParseResult.hostname: the netloc without userinfo and port, lower-cased up
\* to a '%'; None when that is empty.
HostnameOf(host) ==
  IF host = <<>> THEN None
  ELSE IF Find(host, {"%"}) > 0
  THEN Some(Lower(SubSeq(host, 1, Find(host, {"%"}) - 1))
            \o From(host, Find(host, {"%"})))
  ELSE Some(Lower(host))

Hostname(netloc) == HostnameOf(HostInfo(netloc))

HexDigits == Digits \cup {"a","b","c","d","e","f","A","B","C","D","E","F"}

\* The character a %XY escape stands for: the escapes of the characters the
\* modelled URLs are written in decode to these characters, every other
\* escape to a character outside that alphabet, written chr(XY).
PctCharOf(xy) ==
  CASE xy = <<"2","d">> -> "-"
    [] xy = <<"5","f">> -> "_"
    [] xy = <<"2","6">> -> "&"
    [] xy = <<"3","d">> -> "="
    [] xy = <<"2","f">> -> "/"
    [] xy = <<"3","f">> -> "?"
    [] xy = <<"2","5">> -> "%"
    [] xy = <<"3","0">> -> "0"
    [] xy = <<"6","1">> -> "a"
    [] xy = <<"7","6">> -> "v"
    [] OTHER -> "chr(" \o xy[1] \o xy[2] \o ")"

PctChar(x, y) == PctCharOf(<<LowerChar(x), LowerChar(y)>>)

\* urllib.parse.unquote: every %XY with two hex digits is decoded, any other
\* '%' stays.
RECURSIVE Unquote(_)
Unquote(s) ==
  IF s = <<>> THEN <<>>
  ELSE IF /\ s[1] = "%"
          /\ Len(s) >= 3
          /\ s[2] \in HexDigits
          /\ s[3] \in HexDigits
       THEN <<PctChar(s[2], s[3])>> \o Unquote(From(s, 4))
       ELSE <<s[1]>> \o Unquote(From(s, 2))

\* parse_qs(query).get(name, [None])[0]: the fields are split on '&'; an
\* empty field, a field without '=' and a field with an empty value are
\* dropped (keep_blank_values is False); in name and value '+' becomes a
\* space and escapes are decoded; the first value under the name is taken.
QsText(t) == Unquote(Replace(t, "+", " "))

RECURSIVE FirstValue(_, _)
FirstValue(fields, name) ==
  IF fields = <<>> THEN None
  ELSE IF /\ "=" \in Range(Head(fields))
          /\ Partition(Head(fields), "=")[2] # <<>>
          /\ QsText(Partition(Head(fields), "=")[1]) = name
       THEN Some(QsText(Partition(Head(fields), "=")[2]))
       ELSE FirstValue(Tail(fields), name)

ParseQsFirst(query, name) == FirstValue(Split(query, "&"), name)

\* ------------------------------------------------------------------------
\* YouTubeTools.get_youtube_video_id
\* ------------------------------------------------------------------------

\* {11} in youtube_regex
IdLen == 11

S_youtu_be == <<"y","o","u","t","u",".","b","e">>

S_youtube_com == <<"y","o","u","t","u","b","e",".","c","o","m">>

S_www_youtube_com == <<"w","w","w",".">> \o S_youtube_com

S_watch == <<"/","w","a","t","c","h">>

S_embed == <<"/","e","m","b","e","d","/">>

S_v == <<"/","v","/">>

\* Fault variant of RegexIdClass: [^&=\?]
RegexIdClass_Percent(c) == c \notin {"&", "=", "?"}

\* [^&=%\?]
RegexIdClass(c) == c \notin {"&", "=", "%", "?"}

\* (https?://)?(www\.)?  The position after the two optional groups.  Each
\* group is taken when it matches: giving one back never leads to a match,
\* since a host alternative would then have to start with "http" or "www.".
RegexAfterScheme(url) ==
  IF StartsWith(url, <<"h","t","t","p","s",":","/","/">>) THEN 9
  ELSE IF StartsWith(url, <<"h","t","t","p",":","/","/">>) THEN 8
  ELSE 1

RegexAfterWww(url) ==
  IF StartsWithAt(url, RegexAfterScheme(url), <<"w","w","w",".">>)
  THEN RegexAfterScheme(url) + 4 ELSE RegexAfterScheme(url)

\* (youtube|youtu|youtube-nocookie)\.(com|be)/  from position p: the
\* position after the '/', or 0 when no alternative matches.
RegexAfterHost(url, p) ==
  LET names == << <<"y","o","u","t","u","b","e">>,
                  <<"y","o","u","t","u">>,
                  <<"y","o","u","t","u","b","e","-",
                    "n","o","c","o","o","k","i","e">> >>
      tlds  == << <<".","c","o","m","/">>, <<".","b","e","/">> >>
      ok    == { ij \in (1..3) \X (1..2) :
                   /\ StartsWithAt(url, p, names[ij[1]])
                   /\ StartsWithAt(url, p + Len(names[ij[1]]), tlds[ij[2]]) }
      \* the alternatives are tried in the written order
      first == CHOOSE ij \in ok : \A o \in ok :
                 \/ ij[1] < o[1]
                 \/ ij[1] = o[1] /\ ij[2] <= o[2]
  IN  IF ok = {} THEN 0 ELSE p + Len(names[first[1]]) + Len(tlds[first[2]])

\* (watch\?v=|embed/|v/|.+\?v=)?  from position p: the positions at which
\* the capture may start, in the order the matcher tries them: after each
\* literal alternative, after .+\?v= from its longest match to its shortest
\* (.+ takes at least one character), and at p when the group is skipped.
RECURSIVE DotPlusEnds(_, _, _)
DotPlusEnds(url, p, q) ==
  IF q < p + 4 THEN <<>>
  ELSE (IF StartsWithAt(url, q - 3, <<"?","v","=">>) THEN <<q>> ELSE <<>>)
       \o DotPlusEnds(url, p, q - 1)

RegexLiteral(url, p, w) ==
  IF StartsWithAt(url, p, w) THEN <<p + Len(w)>> ELSE <<>>

RegexCaptureStarts(url, p) ==
  IF p = 0 THEN <<>>
  ELSE RegexLiteral(url, p, <<"w","a","t","c","h","?","v","=">>)
       \o RegexLiteral(url, p, <<"e","m","b","e","d","/">>)
       \o RegexLiteral(url, p, <<"v","/">>)
       \o DotPlusEnds(url, p, Len(url) + 1)
       \o <<p>>

\* ([^&=%\?]{11}) at position q
RegexCaptures(url, q) ==
  /\ q + IdLen - 1 <= Len(url)
  /\ \A k \in q..(q + IdLen - 1) : RegexIdClass(url[k])

\* The capture at the first start at which it matches; None when at none
RECURSIVE FirstCapture(_, _)
FirstCapture(url, starts) ==
  IF starts = <<>> THEN None
  ELSE IF RegexCaptures(url, Head(starts))
  THEN Some(SubSeq(url, Head(starts), Head(starts) + IdLen - 1))
  ELSE FirstCapture(url, Tail(starts))

\* re.match(youtube_regex, url), then group(6); None when there is no match
RegexGroup6(url) ==
  FirstCapture(url,
    RegexCaptureStarts(url, RegexAfterHost(url, RegexAfterWww(url))))

\* The structured branches of get_youtube_video_id: whether one of them
\* returns, and what.
\* Fault variant of HostIs: hostname.endswith(host)
HostIs_EndsWith(hostname, hosts) ==
  /\ hostname.some
  /\ \E h \in hosts :
       /\ Len(h) <= Len(hostname.val)
       /\ From(hostname.val, Len(hostname.val) - Len(h) + 1) = h

\* hostname == "youtu.be", hostname in ("www.youtube.com", "youtube.com")
HostIs(hostname, hosts) == hostname.some /\ hostname.val \in hosts

\* Fault variant of YoutuBeId: parsed_url.path
YoutuBeId_Slash(path) == path

\* parsed_url.path[1:]
YoutuBeId(path) == From(path, 2)

\* query_params.get("v", [None])[0]
WatchId(query) == ParseQsFirst(query, <<"v">>)

\* parsed_url.path.split("/")[2]
SegmentId(path) == Split(path, "/")[3]

BranchOf(hostname, path, query) ==
  IF HostIs(hostname, {S_youtu_be})
  THEN [taken |-> TRUE, id |-> Some(YoutuBeId(path))]
  ELSE IF HostIs(hostname, {S_www_youtube_com, S_youtube_com})
  THEN IF path = S_watch
       THEN [taken |-> TRUE, id |-> WatchId(query)]
       ELSE IF StartsWith(path, S_embed)
       THEN [taken |-> TRUE, id |-> Some(SegmentId(path))]
       ELSE IF StartsWith(path, S_v)
       THEN [taken |-> TRUE, id |-> Some(SegmentId(path))]
       ELSE [taken |-> FALSE, id |-> None]
  ELSE [taken |-> FALSE, id |-> None]

StructuredBranchOf(parsed) ==
  BranchOf(Hostname(parsed.netloc), parsed.path, parsed.query)

StructuredBranch(url) == StructuredBranchOf(UrlParse(url))

\* Fault variant of FirstMatch: the regex is tried first
FirstMatch_RegexFirst(branch, url) ==
  IF RegexGroup6(url).some THEN RegexGroup6(url) ELSE branch.id

\* A structured branch that is taken returns; the regex is tried otherwise.
FirstMatch(branch, url) ==
  IF branch.taken THEN branch.id ELSE RegexGroup6(url)

get_youtube_video_id(url) == FirstMatch(StructuredBranch(url), url)

\* ------------------------------------------------------------------------
\* Requests, upstream answers and responses
\* ------------------------------------------------------------------------

VARIABLES
  op,             \* the function the request runs
  url,            \* its url argument
  languages,      \* its languages argument: None or a list of codes
  pc,             \* where the function stands
  video_id,       \* the local video_id
  title,          \* get_video_captions: the local title
  captions,       \* the local captions: None or a list of cues
  error_messages, \* get_video_captions: the local error_messages
  available_languages, \* get_video_captions: the local available_languages
  calls,          \* the upstream requests issued so far, in order
  response,       \* what the function returned or raised
  requests,       \* the server: the requests it has accepted, by number
  running,        \* the server: the request whose handler runs, or 0
  twin            \* an earlier run of the same request, kept to compare

\* What lives outside the frame of the handler that runs
outer == <<requests, running, twin>>

vars == <<op, url, languages, pc, video_id, title, captions,
          error_messages, available_languages, calls, response, outer>>

\* languages: Optional[List[str]]
NoLanguages == [given |-> FALSE, list |-> <<>>]

LanguageList(l) == [given |-> TRUE, list |-> l]

\* `languages and len(languages) > 0`
LanguagesGiven(l) == l.given /\ Len(l.list) > 0

\* Optional list of cues
NoCaptions == [some |-> FALSE, val |-> <<>>]

\* What an upstream call did: it raised an exception with a text, or it
\* returned a value.
Raised(text) == [raised |-> TRUE, text |-> text, value |-> <<>>]

Returned(v) == [raised |-> FALSE, text |-> "", value |-> v]

\* The upstream requests the code issues.
OEmbedCall(id, outcome) ==
  [api |-> "oembed", video_id |-> id, restricted |-> FALSE,
   languages |-> <<>>, outcome |-> outcome]

\* YouTubeTranscriptApi.get_transcript(video_id)
TranscriptDefaultCall(id, outcome) ==
  [api |-> "get_transcript", video_id |-> id, restricted |-> FALSE,
   languages |-> <<>>, outcome |-> outcome]

\* YouTubeTranscriptApi.get_transcript(video_id, languages=langs)
TranscriptCall(id, langs, outcome) ==
  [api |-> "get_transcript", video_id |-> id, restricted |-> TRUE,
   languages |-> langs, outcome |-> outcome]

\* YouTubeTranscriptApi.list_transcripts(video_id) and the iteration over it
ListCall(id, outcome) ==
  [api |-> "list_transcripts", video_id |-> id, restricted |-> FALSE,
   languages |-> <<>>, outcome |-> outcome]

NoResponse == [status |-> 0, detail |-> <<>>, body |-> <<>>]

\* No earlier run is kept
NoTwin ==
  [kept |-> FALSE, calls |-> <<>>, title |-> None, response |-> NoResponse]

\* The run that has ended, kept
TwinOf(cs, t, r) == [kept |-> TRUE, calls |-> cs, title |-> t, response |-> r]

\* raise HTTPException(status_code=status, detail=detail)
HTTPException(status, detail) ==
  [status |-> status, detail |-> detail, body |-> <<>>]

\* return body (FastAPI answers 200)
Return(body) == [status |-> 200, detail |-> <<>>, body |-> body]

\* Fault variant of Join: only the last message is kept
Join_Last(msgs) == IF msgs = <<>> THEN <<>> ELSE msgs[Len(msgs)]

\* '; '.join(msgs), each message a sequence of pieces
RECURSIVE Join(_)
Join(msgs) ==
  IF msgs = <<>> THEN <<>>
  ELSE IF Len(msgs) = 1 THEN msgs[1]
  ELSE msgs[1] \o <<"; ">> \o Join(Tail(msgs))

\* ------------------------------------------------------------------------
\* The check every handler starts with
\* ------------------------------------------------------------------------

\* Fault variant of NoVideoId: `video_id is None`
NoVideoId_NoneOnly(id) == ~id.some

\* `not video_id`: None and the empty string are falsy
NoVideoId(id) == ~id.some \/ id.val = <<>>

\* The HTTPException the first lines of a handler raise, or NoResponse when
\* they extract an id: an empty url raises 400 at once; a missing id raises
\* 400 inside the try, and the except around it raises 400 again with the
\* first exception's text in the detail.
InvalidInput(u) ==
  IF u = <<>>
  THEN HTTPException(400, <<"No URL provided">>)
  ELSE IF NoVideoId(get_youtube_video_id(u))
  THEN HTTPException(400, <<"Error getting video ID from URL: ",
                            "str(HTTPException(400, 'Invalid YouTube URL'))">>)
  ELSE NoResponse

\* ------------------------------------------------------------------------
\* YouTubeTools.get_video_data
\* ------------------------------------------------------------------------

\* The keys get_video_data copies from the oEmbed document
CleanKeys == {"title", "author_name", "author_url", "type", "height",
              "width", "version", "provider_name", "provider_url",
              "thumbnail_url"}

\* video_data.get(key) on a decoded JSON object: None for a missing key
DocGet(doc, key) == IF key \in DOMAIN doc THEN Some(doc[key]) ELSE None

\* What urlopen and the response body can be.  urlopen raises on a network
\* error and on a non-2xx status; a body that is no JSON makes json.loads
\* raise; a JSON body that is no object makes video_data.get raise.
OEmbedBody(isJson, isObject, doc) ==
  [json |-> isJson, object |-> isObject, doc |-> doc]

\* The record returned when the oEmbed call failed
DegradedData(id) ==
  [title         |-> Some(<<"YouTube Video (">> \o id \o <<")">>),
   author_name   |-> Some(<<"Unknown">>),
   thumbnail_url |-> Some(<<"https://img.youtube.com/vi/">> \o id
                            \o <<"/0.jpg">>)]

\* Fault variant of VideoData: a body that is no JSON object is not caught
\* and read as an object without keys
VideoData_Unchecked(id, outcome) ==
  IF outcome.raised THEN DegradedData(id)
  ELSE [k \in CleanKeys |-> DocGet(outcome.value.doc, k)]

\* The try block of get_video_data, after the id was extracted: outcome is
\* what the oEmbed request did.
VideoData(id, outcome) ==
  IF outcome.raised THEN DegradedData(id)
  ELSE IF ~outcome.value.json THEN DegradedData(id)
  ELSE IF ~outcome.value.object THEN DegradedData(id)
  ELSE [k \in CleanKeys |-> DocGet(outcome.value.doc, k)]

\* ------------------------------------------------------------------------
\* Formatting of cues
\* ------------------------------------------------------------------------

\* A cue as the transcript API returns it; start and duration are floats,
\* held here in tenths of a second.
Cue(text, start, duration) ==
  [text |-> text, start |-> start, duration |-> duration]

\* int(x) of a float held in tenths: truncation toward zero
IntOf(x) == IF x >= 0 THEN x \div 10 ELSE -((-x) \div 10)

\* str(n) of an int
RECURSIVE DecDigits(_)
DecDigits(n) ==
  LET d == <<"0","1","2","3","4","5","6","7","8","9">>[(n % 10) + 1]
  IN  IF n < 10 THEN <<d>> ELSE DecDigits(n \div 10) \o <<d>>

IntStr(n) == IF n < 0 THEN <<"-">> \o DecDigits(-n) ELSE DecDigits(n)

\* f"{n:02d}"
IntStr02(n) == IF Len(IntStr(n)) < 2 THEN <<"0">> \o IntStr(n) ELSE IntStr(n)

\* Fault variant of Timestamp: the minutes roll over into hours
Timestamp_Hours(start) ==
  IF start < 3600
  THEN IntStr(start \div 60) \o <<":">> \o IntStr02(start % 60)
  ELSE IntStr(start \div 3600) \o <<":">> \o IntStr02((start \div 60) % 60)
       \o <<":">> \o IntStr02(start % 60)

\* minutes, seconds = divmod(start, 60); f"{minutes}:{seconds:02d}"
Timestamp(start) ==
  IntStr(start \div 60) \o <<":">> \o IntStr02(start % 60)

\* One entry of formatted_captions
FormattedCaption(caption) ==
  [text      |-> caption.text,
   timestamp |-> Timestamp(IntOf(caption.start)),
   start     |-> IntOf(caption.start),
   duration  |-> caption.duration]

FormattedCaptions(cues) == [i \in DOMAIN cues |-> FormattedCaption(cues[i])]

\* One entry of timestamps: f"{minutes}:{seconds:02d} - {line['text']}"
TimestampLine(line) ==
  Timestamp(IntOf(line.start)) \o <<" - ", line.text>>

TimestampLines(cues) == [i \in DOMAIN cues |-> TimestampLine(cues[i])]

\* ------------------------------------------------------------------------
\* Inputs: the requests and the upstream answers the model draws from
\* ------------------------------------------------------------------------

\* Texts of the exceptions the transcript API raises
ErrTexts == {"NoTranscriptFound", "TranscriptsDisabled"}

\* Transcripts the API returns: none of the cues, one cue, two cues
Transcripts ==
  { <<>>,
    <<Cue("hello", 0, 15)>>,
    <<Cue("first", 599, 20), Cue("second", 36612, 31)>> }

\* Language codes list_transcripts yields, in the provider's order
ListedLanguages == { <<>>, <<"de">>, <<"de", "en">>, <<"en", "de">> }

TranscriptOutcomes ==
  { Raised(t) : t \in ErrTexts } \cup { Returned(t) : t \in Transcripts }

ListOutcomes ==
  { Raised(t) : t \in ErrTexts } \cup { Returned(l) : l \in ListedLanguages }

FullDoc ==
  [title         |-> <<"Some title">>,
   author_name   |-> <<"Some author">>,
   author_url    |-> <<"https://www.youtube.com/@author">>,
   type          |-> <<"video">>,
   height        |-> <<"113">>,
   width         |-> <<"200">>,
   version       |-> <<"1.0">>,
   provider_name |-> <<"YouTube">>,
   provider_url  |-> <<"https://www.youtube.com/">>,
   thumbnail_url |-> <<"https://i.ytimg.com/vi/id/hqdefault.jpg">>]

UntitledDoc == [author_name |-> <<"Some author">>]

OEmbedOutcomes ==
  { Raised("URLError"), Raised("HTTPError"),
    Returned(OEmbedBody(FALSE, FALSE, UntitledDoc)),
    Returned(OEmbedBody(TRUE, FALSE, UntitledDoc)),
    Returned(OEmbedBody(TRUE, TRUE, UntitledDoc)),
    Returned(OEmbedBody(TRUE, TRUE, FullDoc)) }

RequestLanguages ==
  { NoLanguages, LanguageList(<<>>), LanguageList(<<"en">>),
    LanguageList(<<"fr", "en">>) }

S_https == <<"h","t","t","p","s",":","/","/">>

SampleId == <<"d","Q","w","4","w","9","W","g","X","c","Q">>

\* urls of requests: empty, a foreign host, youtu.be without an id, and
\* three urls an id is extracted from
RequestUrls ==
  { <<>>,
    S_https \o <<"e","x","a","m","p","l","e",".","c","o","m">>
            \o S_watch \o <<"?","v","=","a","b","c">>,
    S_https \o S_youtu_be \o <<"/">>,
    S_https \o S_youtu_be \o <<"/">> \o SampleId,
    S_https \o S_www_youtube_com \o S_watch \o <<"?","v","=">> \o SampleId,
    S_https \o S_youtu_be \o <<"/","a","b","c">> }

\* A url an id is extracted from
SampleUrl == S_https \o S_youtu_be \o <<"/">> \o SampleId

Handlers == {"get_video_data", "get_video_captions", "get_video_timestamps"}

Init ==
  /\ op \in Handlers
  /\ url \in RequestUrls
  /\ languages \in RequestLanguages
  /\ pc = "start"
  /\ video_id = None
  /\ title = None
  /\ captions = NoCaptions
  /\ error_messages = <<>>
  /\ available_languages = <<>>
  /\ calls = <<>>
  /\ response = NoResponse
  /\ requests = <<>>
  /\ running = 0
  /\ twin = NoTwin

\* The first lines of each handler: raise 400, or keep the id and go on
ValidateWith(handler, next, invalid) ==
  /\ op = handler
  /\ pc = "start"
  /\ IF invalid.status = 400
     THEN /\ response' = invalid
          /\ pc' = "done"
          /\ UNCHANGED video_id
     ELSE /\ video_id' = get_youtube_video_id(url)
          /\ pc' = next
          /\ UNCHANGED response
  /\ UNCHANGED <<outer, op, url, languages, title, captions, error_messages,
                 available_languages, calls>>

Validate(handler, next) == ValidateWith(handler, next, InvalidInput(url))

\* ---- get_video_data ----

DataValidate == Validate("get_video_data", "data_oembed")

DataOEmbed ==
  /\ pc = "data_oembed"
  /\ \E o \in OEmbedOutcomes :
       /\ calls' = Append(calls, OEmbedCall(video_id.val, o))
       /\ response' = Return(VideoData(video_id.val, o))
  /\ pc' = "done"
  /\ UNCHANGED <<outer, op, url, languages, video_id, title, captions,
                 error_messages, available_languages>>

\* ---- get_video_captions ----

\* Fault variant of CaptionsFound: `if captions is not None:`
CaptionsFound_NotNone(c) == c.some

\* `if captions:` a list that is not None and not empty
CaptionsFound(c) == c.some /\ c.val # <<>>

\* The end of get_video_captions, from `if captions:` on
CaptionsResult(t, c, msgs) ==
  IF CaptionsFound(c)
  THEN Return([title |-> t, subtitles |-> FormattedCaptions(c.val)])
  ELSE HTTPException(404,
         <<"No captions found for this video">>
         \o (IF msgs # <<>> THEN <<". Errors: ">> \o Join(msgs) ELSE <<>>))

\* Fault variant of FirstLang: the last listed language
FirstLang_Last(langs) == langs[Len(langs)]

\* first_lang = available_languages[0]
FirstLang(langs) == langs[1]

\* Fault variant of FirstTranscriptCall: the requested languages are ignored
FirstTranscriptCall_Unrestricted(id, langs, o) == TranscriptDefaultCall(id, o)

\* The first transcript request of both caption handlers: restricted to the
\* requested languages when there are any, unrestricted otherwise
FirstTranscriptCall(id, langs, o) ==
  IF LanguagesGiven(langs)
  THEN TranscriptCall(id, langs.list, o)
  ELSE TranscriptDefaultCall(id, o)

CapValidate == Validate("get_video_captions", "cap_video_data")

\* Fault variant of CapVideoData: an oEmbed request that raised ends the
\* call with 500
CapVideoData_Surfaces ==
  /\ pc = "cap_video_data"
  /\ \E o \in OEmbedOutcomes :
       /\ calls' = Append(calls, OEmbedCall(video_id.val, o))
       /\ title' = VideoData(video_id.val, o).title
       /\ IF o.raised
          THEN /\ response' = HTTPException(500,
                                <<"Error getting captions for video: ", o.text>>)
               /\ pc' = "done"
          ELSE /\ pc' = "cap_first"
               /\ UNCHANGED response
  /\ UNCHANGED <<outer, op, url, languages, video_id, captions, error_messages,
                 available_languages>>

\* video_data = YouTubeTools.get_video_data(url); title = video_data.get(...)
\* get_video_data checks the url once more and would raise 400, which the
\* handler lets through.
CapVideoData ==
  /\ pc = "cap_video_data"
  /\ IF InvalidInput(url).status = 400
     THEN /\ response' = InvalidInput(url)
          /\ pc' = "done"
          /\ UNCHANGED <<calls, title>>
     ELSE /\ \E o \in OEmbedOutcomes :
               /\ calls' = Append(calls,
                             OEmbedCall(get_youtube_video_id(url).val, o))
               /\ title' = VideoData(get_youtube_video_id(url).val, o).title
          /\ pc' = "cap_first"
          /\ UNCHANGED response
  /\ UNCHANGED <<outer, op, url, languages, video_id, captions, error_messages,
                 available_languages>>

\* The first try: the requested languages, or the default
CapFirst ==
  /\ pc = "cap_first"
  /\ \E o \in TranscriptOutcomes :
       /\ calls' = Append(calls, FirstTranscriptCall(video_id.val, languages, o))
       /\ IF o.raised
          THEN /\ error_messages' =
                    Append(error_messages, <<"Failed to get captions: ", o.text>>)
               /\ pc' = "cap_list"
               /\ UNCHANGED <<captions, response>>
          ELSE /\ captions' = Some(o.value)
               /\ response' = CaptionsResult(title, Some(o.value), error_messages)
               /\ pc' = "done"
               /\ UNCHANGED error_messages
  /\ UNCHANGED <<outer, op, url, languages, video_id, title, available_languages>>

\* The second try, first half: list the available languages
CapList ==
  /\ pc = "cap_list"
  /\ \E o \in ListOutcomes :
       /\ calls' = Append(calls, ListCall(video_id.val, o))
       /\ IF o.raised
          THEN /\ error_messages' =
                    Append(error_messages,
                           <<"Failed to list available languages: ", o.text>>)
               /\ pc' = "cap_en"
               /\ UNCHANGED <<available_languages, response>>
          ELSE /\ available_languages' = o.value
               /\ IF o.value # <<>>
                  THEN /\ pc' = "cap_first_lang"
                       /\ UNCHANGED response
                  ELSE /\ response' = CaptionsResult(title, captions, error_messages)
                       /\ pc' = "done"
               /\ UNCHANGED error_messages
  /\ UNCHANGED <<outer, op, url, languages, video_id, title, captions>>

\* The second try, second half: the transcript of the first listed language
CapFirstLang ==
  /\ pc = "cap_first_lang"
  /\ \E o \in TranscriptOutcomes :
       /\ calls' = Append(calls,
            TranscriptCall(video_id.val, <<FirstLang(available_languages)>>, o))
       /\ IF o.raised
          THEN /\ error_messages' =
                    Append(error_messages,
                           <<"Failed to list available languages: ", o.text>>)
               /\ pc' = "cap_en"
               /\ UNCHANGED <<captions, response>>
          ELSE /\ captions' = Some(o.value)
               /\ response' = CaptionsResult(title, Some(o.value), error_messages)
               /\ pc' = "done"
               /\ UNCHANGED error_messages
  /\ UNCHANGED <<outer, op, url, languages, video_id, title, available_languages>>

\* Fault variant of CapEn: a request for en that raised is made once more
CapEn_Retry ==
  /\ pc = "cap_en"
  /\ \E o \in TranscriptOutcomes :
       /\ calls' = Append(calls, TranscriptCall(video_id.val, <<"en">>, o))
       /\ IF o.raised
          THEN /\ error_messages' =
                    Append(error_messages,
                           <<"Failed to get captions with 'en' language: ", o.text>>)
               /\ IF Len(error_messages) < 3
                  THEN pc' = "cap_en" /\ UNCHANGED response
                  ELSE /\ response' = CaptionsResult(title, captions, error_messages')
                       /\ pc' = "done"
               /\ UNCHANGED captions
          ELSE /\ captions' = Some(o.value)
               /\ response' = CaptionsResult(title, Some(o.value), error_messages)
               /\ pc' = "done"
               /\ UNCHANGED error_messages
  /\ UNCHANGED <<outer, op, url, languages, video_id, title, available_languages>>

\* The third try: language en
CapEn ==
  /\ pc = "cap_en"
  /\ \E o \in TranscriptOutcomes :
       /\ calls' = Append(calls, TranscriptCall(video_id.val, <<"en">>, o))
       /\ IF o.raised
          THEN /\ error_messages' =
                    Append(error_messages,
                           <<"Failed to get captions with 'en' language: ", o.text>>)
               /\ response' = CaptionsResult(title, captions, error_messages')
               /\ UNCHANGED captions
          ELSE /\ captions' = Some(o.value)
               /\ response' = CaptionsResult(title, Some(o.value), error_messages)
               /\ UNCHANGED error_messages
  /\ pc' = "done"
  /\ UNCHANGED <<outer, op, url, languages, video_id, title, available_languages>>

\* ---- get_video_timestamps ----

\* Fault variant of TimestampsError: a 404 as in get_video_captions
TimestampsError_NotFound(text) ==
  HTTPException(404, <<"No captions found for this video">>)

\* The HTTPException of the outer except of get_video_timestamps
TimestampsError(text) ==
  HTTPException(500, <<"Error generating timestamps: ", text>>)

TsValidate == Validate("get_video_timestamps", "ts_first")

\* The first try: the requested languages, or the default
TsFirst ==
  /\ pc = "ts_first"
  /\ \E o \in TranscriptOutcomes :
       /\ calls' = Append(calls, FirstTranscriptCall(video_id.val, languages, o))
       /\ IF o.raised
          THEN /\ pc' = "ts_en"
               /\ UNCHANGED <<captions, response>>
          ELSE /\ captions' = Some(o.value)
               /\ response' = Return(TimestampLines(o.value))
               /\ pc' = "done"
  /\ UNCHANGED <<outer, op, url, languages, video_id, title, error_messages,
                 available_languages>>

\* The second try, in the except of the first: language en
TsEn ==
  /\ pc = "ts_en"
  /\ \E o \in TranscriptOutcomes :
       /\ calls' = Append(calls, TranscriptCall(video_id.val, <<"en">>, o))
       /\ IF o.raised
          THEN /\ response' = TimestampsError(o.text)
               /\ UNCHANGED captions
          ELSE /\ captions' = Some(o.value)
               /\ response' = Return(TimestampLines(o.value))
  /\ pc' = "done"
  /\ UNCHANGED <<outer, op, url, languages, video_id, title, error_messages,
                 available_languages>>

Next ==
  \/ DataValidate
  \/ DataOEmbed
  \/ CapValidate
  \/ CapVideoData
  \/ CapFirst
  \/ CapList
  \/ CapFirstLang
  \/ CapEn
  \/ TsValidate
  \/ TsFirst
  \/ TsEn

Spec == Init /\ [][Next]_vars

\* The steps that end with an answer of the transcript provider
ProviderStep ==
  \/ CapFirst
  \/ CapList
  \/ CapFirstLang
  \/ CapEn
  \/ TsFirst
  \/ TsEn

\* The same handlers when the transcript provider answers every request
\* that was issued: the call returns or raises, and the handler goes on
SpecFair == Spec /\ WF_vars(ProviderStep)

\* ------------------------------------------------------------------------
\* get_youtube_video_id on its own: the url is drawn from a bounded set and
\* the function is applied to it
\* ------------------------------------------------------------------------

\* Length of the first run of a tail
MaxFirstRun == 2

\* Length of the short tails
MaxShort == 3

\* Characters of YouTube's identifier alphabet: a lower-case and an
\* upper-case letter, a digit, '-' and '_'
IdChars == {"a", "Z", "0", "-", "_"}

\* Characters the tails are written in: identifier characters, and
\* characters urlparse, parse_qs and the regex treat specially
TailChars == IdChars \cup {"&", "%", "/", "?"}

Rep(c, n) == [i \in 1..n |-> c]

TailLens == {0, MaxShort, IdLen - 1, IdLen, IdLen + 1}

\* The last part of a url: a run of one character, then a run of another
Tails ==
  { Rep(c1, k) \o Rep(c2, n - k) :
      c1 \in TailChars, c2 \in TailChars,
      k \in 0..MaxFirstRun, n \in { m \in TailLens : m >= MaxFirstRun } }
  \cup { <<>> }

S_http == <<"h","t","t","p",":","/","/">>

S_example_com == <<"e","x","a","m","p","l","e",".","c","o","m">>

S_nocookie_com ==
  <<"y","o","u","t","u","b","e","-","n","o","c","o","o","k","i","e",
    ".","c","o","m">>

\* Scheme and authority of the urls
Prefixes ==
  { S_https \o S_youtu_be,
    S_https \o S_www_youtube_com,
    S_https \o S_youtube_com,
    S_http \o <<"Y","o","u","T","u",".","B","E">>,
    S_youtu_be,
    S_www_youtube_com,
    S_https \o <<"m",".">> \o S_youtube_com,
    S_https \o <<"w","w","w",".">> \o S_nocookie_com,
    S_https \o <<"y","o","u","t","u",".","c","o","m">>,
    S_https \o S_example_com,
    S_https \o <<"n","o","t">> \o S_youtu_be,
    S_https \o S_youtu_be \o <<"@">> \o S_example_com,
    S_https \o S_example_com \o <<":","8","0">>,
    S_example_com }

\* What stands between the authority and the tail
Middles ==
  { <<"/">>,
    S_watch \o <<"?","v","=">>,
    S_embed,
    S_v,
    S_watch \o <<"?","t","=","1","&","v","=">>,
    <<"/","x","?","v","=">>,
    <<"/">> \o S_https \o S_youtu_be \o <<"/">>,
    <<"/","?","u","=">> \o S_https \o S_www_youtube_com
      \o S_watch \o <<"?","v","=">> }

IdUrls == { p \o m \o t : p \in Prefixes, m \in Middles, t \in Tails }

InitId ==
  /\ op = "get_youtube_video_id"
  /\ url \in IdUrls
  /\ languages = NoLanguages
  /\ pc = "start"
  /\ video_id = None
  /\ title = None
  /\ captions = NoCaptions
  /\ error_messages = <<>>
  /\ available_languages = <<>>
  /\ calls = <<>>
  /\ response = NoResponse
  /\ requests = <<>>
  /\ running = 0
  /\ twin = NoTwin

\* video_id = YouTubeTools.get_youtube_video_id(url)
ExtractId ==
  /\ op = "get_youtube_video_id"
  /\ pc = "start"
  /\ video_id' = get_youtube_video_id(url)
  /\ pc' = "done"
  /\ UNCHANGED <<outer, op, url, languages, title, captions, error_messages,
                 available_languages, calls, response>>

NextId == ExtractId

SpecId == InitId /\ [][NextId]_vars

\* ------------------------------------------------------------------------
\* The formatting of a cue on its own: a cue is drawn from a bounded set, and
\* the handler formats the transcript that holds it
\* ------------------------------------------------------------------------

\* Largest start of a cue, in seconds
MaxStart == 3700

\* Tenths of a second a start lies after the whole second
Fractions == {0, 9}

\* Starts of cues, in tenths of a second
CueStarts == { 10 * s + f : s \in 0..MaxStart, f \in Fractions }

\* The handlers that format cues
FormatHandlers == {"get_video_captions", "get_video_timestamps"}

\* The handler holds a transcript of one cue and is about to format it
InitFmt ==
  /\ op \in FormatHandlers
  /\ url = SampleUrl
  /\ languages = NoLanguages
  /\ pc = "format"
  /\ video_id = Some(SampleId)
  /\ title = None
  /\ captions \in { Some(<<Cue("text", start, 25)>>) : start \in CueStarts }
  /\ error_messages = <<>>
  /\ available_languages = <<>>
  /\ calls = <<>>
  /\ response = NoResponse
  /\ requests = <<>>
  /\ running = 0
  /\ twin = NoTwin

\* get_video_captions from `if captions:` on
FormatCaptions ==
  /\ op = "get_video_captions"
  /\ pc = "format"
  /\ response' = CaptionsResult(title, captions, error_messages)
  /\ pc' = "done"
  /\ UNCHANGED <<outer, op, url, languages, video_id, title, captions,
                 error_messages, available_languages, calls>>

\* get_video_timestamps from `timestamps = []` on
FormatTimestamps ==
  /\ op = "get_video_timestamps"
  /\ pc = "format"
  /\ response' = Return(TimestampLines(captions.val))
  /\ pc' = "done"
  /\ UNCHANGED <<outer, op, url, languages, video_id, title, captions,
                 error_messages, available_languages, calls>>

NextFmt ==
  \/ FormatCaptions
  \/ FormatTimestamps

SpecFmt == InitFmt /\ [][NextFmt]_vars

\* ------------------------------------------------------------------------
\* The server: the endpoints are `async def` functions that call the
\* handlers of YouTubeTools directly, and uvicorn runs the application on
\* one event loop.  A coroutine holds the loop until it awaits or returns,
\* and neither the endpoints nor the handlers await: from the first line of
\* an endpoint to its return, the loop runs this one request.
\* ------------------------------------------------------------------------

\* Number of requests that clients send
NumRequests == 2

RequestIds == 1..NumRequests

\* A request no client has sent yet
NoRequest == [st |-> "none", op |-> "none", status |-> 0]

\* Where a handler stands while one of its upstream calls is under way
UpstreamPcs ==
  {"data_oembed", "cap_video_data", "cap_first", "cap_list",
   "cap_first_lang", "cap_en", "ts_first", "ts_en"}

InitServer ==
  /\ op = "none"
  /\ url = <<>>
  /\ languages = NoLanguages
  /\ pc = "idle"
  /\ video_id = None
  /\ title = None
  /\ captions = NoCaptions
  /\ error_messages = <<>>
  /\ available_languages = <<>>
  /\ calls = <<>>
  /\ response = NoResponse
  /\ requests = [r \in RequestIds |-> NoRequest]
  /\ running = 0
  /\ twin = NoTwin

\* A client sends request r to one of the three endpoints
Arrive(r) ==
  /\ requests[r].st = "none"
  /\ \E h \in Handlers :
       requests' = [requests EXCEPT ![r] = [st |-> "arrived", op |-> h,
                                            status |-> 0]]
  /\ UNCHANGED <<running, twin, op, url, languages, pc, video_id, title,
                 captions, error_messages, available_languages, calls,
                 response>>

\* The event loop starts the endpoint coroutine of request r: it can do so
\* only when it runs no other coroutine
StartHandler(r) ==
  /\ running = 0
  /\ requests[r].st = "arrived"
  /\ running' = r
  /\ requests' = [requests EXCEPT ![r].st = "running"]
  /\ op' = requests[r].op
  /\ url' = SampleUrl
  /\ languages' = NoLanguages
  /\ pc' = "start"
  /\ UNCHANGED <<twin, video_id, title, captions, error_messages,
                 available_languages, calls, response>>

\* The endpoint coroutine of request r returns or raises: the response is
\* sent, the frame is gone and the event loop is free again
FinishHandler(r) ==
  /\ running = r
  /\ pc = "done"
  /\ requests' = [requests EXCEPT ![r].st = "answered",
                                  ![r].status = response.status]
  /\ running' = 0
  /\ op' = "none"
  /\ url' = <<>>
  /\ pc' = "idle"
  /\ video_id' = None
  /\ title' = None
  /\ captions' = NoCaptions
  /\ error_messages' = <<>>
  /\ available_languages' = <<>>
  /\ calls' = <<>>
  /\ response' = NoResponse
  /\ UNCHANGED <<twin, languages>>

NextServer ==
  \/ \E r \in RequestIds : Arrive(r)
  \/ \E r \in RequestIds : StartHandler(r)
  \/ \E r \in RequestIds : FinishHandler(r)
  \/ DataValidate
  \/ DataOEmbed
  \/ CapValidate
  \/ CapVideoData
  \/ CapFirst
  \/ CapList
  \/ CapFirstLang
  \/ CapEn
  \/ TsValidate
  \/ TsFirst
  \/ TsEn

SpecServer == InitServer /\ [][NextServer]_vars

\* ------------------------------------------------------------------------
\* get_video_captions run twice with the same arguments: the first run is
\* kept, and in the second run the transcript provider answers every
\* request as it answered the same request of the first run; the oEmbed
\* endpoint answers each run as it likes.
\* ------------------------------------------------------------------------

\* urls of the request that is made twice: one an id is extracted from, and
\* one without an id
PairUrls == { SampleUrl, S_https \o S_youtu_be \o <<"/">> }

InitPair ==
  /\ op = "get_video_captions"
  /\ url \in PairUrls
  /\ languages \in RequestLanguages
  /\ pc = "start"
  /\ video_id = None
  /\ title = None
  /\ captions = NoCaptions
  /\ error_messages = <<>>
  /\ available_languages = <<>>
  /\ calls = <<>>
  /\ response = NoResponse
  /\ requests = <<>>
  /\ running = 0
  /\ twin = NoTwin

\* The steps of get_video_captions
CapStep ==
  \/ CapValidate
  \/ CapVideoData
  \/ CapFirst
  \/ CapList
  \/ CapFirstLang
  \/ CapEn

\* c and d are the same request to the transcript provider
SameRequest(c, d) ==
  /\ c.api # "oembed"
  /\ c.api = d.api
  /\ c.video_id = d.video_id
  /\ c.restricted = d.restricted
  /\ c.languages = d.languages

\* The answer to the n-th call of the second run, cs[n], is the answer the
\* first run got when it made the same request as its n-th call
AnsweredAsBefore(cs, n) ==
  (n <= Len(twin.calls) /\ SameRequest(cs[n], twin.calls[n])) =>
    cs[n].outcome = twin.calls[n].outcome

\* A step of the first run
FirstRun == ~twin.kept /\ CapStep

\* The first run has ended: it is kept and the same request is made again
RunAgain ==
  /\ ~twin.kept
  /\ pc = "done"
  /\ twin' = TwinOf(calls, title, response)
  /\ pc' = "start"
  /\ video_id' = None
  /\ title' = None
  /\ captions' = NoCaptions
  /\ error_messages' = <<>>
  /\ available_languages' = <<>>
  /\ calls' = <<>>
  /\ response' = NoResponse
  /\ UNCHANGED <<op, url, languages, requests, running>>

\* A step of the second run
SecondRun ==
  /\ twin.kept
  /\ CapStep
  /\ Len(calls') > Len(calls) => AnsweredAsBefore(calls', Len(calls'))

NextPair ==
  \/ FirstRun
  \/ RunAgain
  \/ SecondRun

SpecPair == InitPair /\ [][NextPair]_vars

\* ------------------------------------------------------------------------
\* Properties of get_video_captions, get_video_data, get_video_timestamps
\* (specification Spec)
\* ------------------------------------------------------------------------

Done == pc = "done"

\* A transcript request that returned a transcript with cues
Wins(c) ==
  c.api = "get_transcript" /\ ~c.outcome.raised /\ c.outcome.value # <<>>

\* The subtitles are the cues, one for one and in the same order
SameCues(subtitles, cues) ==
  /\ Len(subtitles) = Len(cues)
  /\ \A i \in 1..Len(cues) :
       /\ subtitles[i].text = cues[i].text
       /\ subtitles[i].duration = cues[i].duration
       /\ subtitles[i].start = IntOf(cues[i].start)

\* In get_video_captions the calls are: 1 the oEmbed request, 2 the first
\* transcript request, 3 the listing, 4 the request for the first listed
\* language, and last the request for en.

\* C1: when the first transcript request raises, the next request lists the
\* languages, the one after it asks for the first listed language alone, and
\* when that returns cues the call ends 200 with exactly these cues.
C1_EnumerateFirstListed ==
  (op = "get_video_captions" /\ Len(calls) >= 2 /\ calls[2].outcome.raised) =>
    /\ Len(calls) = 2 => pc = "cap_list"
    /\ Len(calls) >= 3 => calls[3].api = "list_transcripts"
    /\ (Len(calls) = 3 /\ ~calls[3].outcome.raised /\ calls[3].outcome.value # <<>>)
         => pc = "cap_first_lang"
    /\ (Len(calls) >= 4 /\ ~calls[3].outcome.raised) =>
         /\ calls[4].api = "get_transcript"
         /\ calls[4].restricted
         /\ calls[4].languages = <<calls[3].outcome.value[1]>>
         /\ Wins(calls[4]) =>
              /\ Done /\ Len(calls) = 4
              /\ response.status = 200
              /\ SameCues(response.body.subtitles, calls[4].outcome.value)

\* C1 witness: en was requested and raised, the listing gave de alone, and
\* the de transcript was returned with 200.
C1_Witness ==
  /\ op = "get_video_captions" /\ Done
  /\ languages = LanguageList(<<"en">>)
  /\ Len(calls) = 4
  /\ calls[2].outcome.raised /\ calls[2].languages = <<"en">>
  /\ ~calls[3].outcome.raised /\ calls[3].outcome.value = <<"de">>
  /\ calls[4].languages = <<"de">> /\ Wins(calls[4])
  /\ response.status = 200
  /\ Len(response.body.subtitles) = 2

\* The Enumerate state failed or found no language: the listing raised, or
\* it returned an empty list, or the request for the first listed language
\* raised
EnumerateFailed ==
  /\ Len(calls) >= 3
  /\ calls[3].api = "list_transcripts"
  /\ \/ calls[3].outcome.raised
     \/ calls[3].outcome.value = <<>>
     \/ Len(calls) >= 4 /\ calls[4].outcome.raised

\* The number of calls of the Enumerate state
EnumerateCalls ==
  IF calls[3].outcome.raised \/ calls[3].outcome.value = <<>> THEN 1 ELSE 2

\* C2 as stated: when the Enumerate state fails or lists no language, the
\* call ends after exactly one more transcript request, restricted to en.
C2_EnglishAfterEnumerate ==
  (op = "get_video_captions" /\ Done /\ EnumerateFailed) =>
    /\ Len(calls) = 2 + EnumerateCalls + 1
    /\ calls[Len(calls)].api = "get_transcript"
    /\ calls[Len(calls)].restricted
    /\ calls[Len(calls)].languages = <<"en">>

\* C3: a transcript request that returns cues is the last request, ends the
\* call with 200 and its cues as the subtitles; and a call that ends 200
\* ends on such a request, so an empty transcript never ends it with 200.
C3_FirstNonEmptyWins ==
  op = "get_video_captions" =>
    /\ \A i \in 1..Len(calls) :
         Wins(calls[i]) =>
           /\ i = Len(calls)
           /\ Done
           /\ response.status = 200
           /\ SameCues(response.body.subtitles, calls[i].outcome.value)
    /\ (Done /\ response.status = 200) =>
         /\ Len(calls) >= 2
         /\ Wins(calls[Len(calls)])
    /\ (Done /\ Len(calls) >= 2 /\ ~calls[Len(calls)].outcome.raised
             /\ calls[Len(calls)].outcome.value = <<>>) =>
         response.status = 404

\* C3 witness: the first transcript request returned two cues and the call
\* ended there with both.
C3_Witness ==
  /\ op = "get_video_captions" /\ Done
  /\ Len(calls) = 2
  /\ Wins(calls[2])
  /\ response.status = 200
  /\ Len(response.body.subtitles) = 2

\* The exception texts a detail carries, in order
DetailTexts(detail) == SelectSeq(detail, LAMBDA piece : piece \in ErrTexts)

\* The texts of the exceptions the transcript and listing requests raised,
\* in order
RECURSIVE RaisedTexts(_)
RaisedTexts(cs) ==
  IF cs = <<>> THEN <<>>
  ELSE (IF Head(cs).api # "oembed" /\ Head(cs).outcome.raised
        THEN <<Head(cs).outcome.text>> ELSE <<>>)
       \o RaisedTexts(Tail(cs))

\* Every attempted state of the caption chain raised or returned nothing
NoStateWon ==
  /\ op = "get_video_captions" /\ Done
  /\ Len(calls) >= 2
  /\ \A i \in 1..Len(calls) : ~Wins(calls[i])

\* C4 as stated: when no attempted state returned cues the call ends 404
\* and the detail carries the message of every attempt, at least one.
C4_DetailNamesAFailure ==
  NoStateWon =>
    /\ response.status = 404
    /\ DetailTexts(response.detail) = RaisedTexts(calls)
    /\ DetailTexts(response.detail) # <<>>

\* C4 amended: when no attempted state returned cues the call ends 404 and
\* the detail carries, in order, the message of every attempt that raised;
\* it names a failure whenever the first transcript request raised.
C4_DetailNamesRaisedAttempts ==
  NoStateWon =>
    /\ response.status = 404
    /\ response.detail[1] = "No captions found for this video"
    /\ DetailTexts(response.detail) = RaisedTexts(calls)
    /\ calls[2].outcome.raised => DetailTexts(response.detail) # <<>>

\* C4 witness: the first request, the listing and the en request raised, the
\* first and the last with different texts, and the 404 carries all three.
C4_Witness ==
  /\ NoStateWon
  /\ Len(calls) = 4
  /\ response.status = 404
  /\ Len(DetailTexts(response.detail)) = 3
  /\ calls[2].outcome.text # calls[4].outcome.text

\* The oEmbed request failed: urlopen raised, or the body was no JSON, or it
\* was no JSON object
OEmbedFailed(c) ==
  \/ c.outcome.raised
  \/ ~c.outcome.value.json
  \/ ~c.outcome.value.object

\* C5: get_video_data, once an id is extracted, ends with a returned value
\* (200, never an exception), and when the oEmbed request failed the value
\* is the record built from the id: title "YouTube Video (id)", author
\* "Unknown", and the thumbnail url of the id.
C5_DataAlwaysReturns ==
  (op = "get_video_data" /\ Done /\ video_id.some) =>
    /\ response.status = 200
    /\ Len(calls) = 1
    /\ OEmbedFailed(calls[1]) =>
         /\ DOMAIN response.body = {"title", "author_name", "thumbnail_url"}
         /\ response.body.title =
              Some(<<"YouTube Video (">> \o video_id.val \o <<")">>)
         /\ response.body.author_name = Some(<<"Unknown">>)
         /\ response.body.thumbnail_url =
              Some(<<"https://img.youtube.com/vi/">> \o video_id.val
                   \o <<"/0.jpg">>)

\* C5 witness: the body of the oEmbed answer was no JSON and the record
\* built from the id was returned.
C5_Witness ==
  /\ op = "get_video_data" /\ Done
  /\ video_id = Some(SampleId)
  /\ ~calls[1].outcome.raised /\ ~calls[1].outcome.value.json
  /\ response.status = 200
  /\ response.body.author_name = Some(<<"Unknown">>)

\* Both transcript requests of get_video_timestamps raised
BothTimestampTriesRaised ==
  /\ op = "get_video_timestamps" /\ Done
  /\ Len(calls) = 2
  /\ calls[1].outcome.raised
  /\ calls[2].outcome.raised

\* C6 as stated: when both requests raised, the detail carries the text of
\* the first request's exception and the text of the en request's.
C6_DetailNamesBothTries ==
  BothTimestampTriesRaised =>
    DetailTexts(response.detail) =
      <<calls[1].outcome.text, calls[2].outcome.text>>

\* C6 amended: when both requests raised, the call ends 500 and the detail
\* is "Error generating timestamps: " and the text of the en request's
\* exception alone.
C6_DetailNamesLastTry ==
  BothTimestampTriesRaised =>
    /\ response.status = 500
    /\ response.detail =
         <<"Error generating timestamps: ", calls[2].outcome.text>>

\* C6 witness: the two requests raised different exceptions.
C6_Witness ==
  /\ BothTimestampTriesRaised
  /\ calls[1].outcome.text # calls[2].outcome.text
  /\ response.status = 500

\* The url is empty, or no id or an empty id is extracted from it
NoIdIn(u) ==
  \/ u = <<>>
  \/ ~get_youtube_video_id(u).some
  \/ get_youtube_video_id(u).val = <<>>

\* C7: for a url that is empty or yields no id, each handler issues no
\* upstream request and ends with 400.
C7_InvalidInputIs400 ==
  NoIdIn(url) =>
    /\ calls = <<>>
    /\ pc \in {"start", "done"}
    /\ Done => response.status = 400

\* C7 witness: get_video_captions got a url with host youtu.be and an empty
\* path, and ended 400 without a request.
C7_Witness ==
  /\ op = "get_video_captions" /\ Done
  /\ url = S_https \o S_youtu_be \o <<"/">>
  /\ response.status = 400
  /\ calls = <<>>

\* ------------------------------------------------------------------------
\* Properties of get_youtube_video_id (specification SpecId)
\* ------------------------------------------------------------------------

\* Letters, digits, '-' and '_'
IdAlphabet == Letters \cup Digits \cup {"-", "_"}

\* Exactly 11 characters of the identifier alphabet
IsId(x) == Len(x) = IdLen /\ \A i \in 1..Len(x) : x[i] \in IdAlphabet

\* C8 as stated: the result is None or 11 characters of the identifier
\* alphabet.
C8_ResultIsAnId ==
  Done => (~video_id.some \/ IsId(video_id.val))

\* C8 amended: the result is None or a string; when no structured branch
\* returns, so that the regex decides, a string result is exactly 11
\* characters, none of them '&', '=', '%' or '?'.
C8_RegexResultIsElevenChars ==
  (Done /\ video_id.some /\ ~StructuredBranch(url).taken) =>
    /\ Len(video_id.val) = IdLen
    /\ \A i \in 1..Len(video_id.val) :
         video_id.val[i] \notin {"&", "=", "%", "?"}

\* C8 witness: the regex returned 11 characters, a '/' among them.
C8_Witness ==
  /\ Done
  /\ video_id.some
  /\ ~StructuredBranch(url).taken
  /\ Len(video_id.val) = IdLen
  /\ "/" \in Range(video_id.val)

\* The text of the url after prefix p when the url starts with p and an
\* identifier follows; <<>> otherwise
IdAfter(p) ==
  IF StartsWith(url, p) /\ IsId(From(url, Len(p) + 1))
  THEN From(url, Len(p) + 1) ELSE <<>>

WatchForm == S_https \o S_www_youtube_com \o S_watch \o <<"?","v","=">>

ShortForm == S_https \o S_youtu_be \o <<"/">>

EmbedForm == S_https \o S_www_youtube_com \o S_embed

\* C9: for an identifier X of 11 characters the result is X for each of
\* https://www.youtube.com/watch?v=X, https://youtu.be/X and
\* https://www.youtube.com/embed/X.
C9_ThreeFormsYieldTheId ==
  Done =>
    \A form \in {WatchForm, ShortForm, EmbedForm} :
      IdAfter(form) # <<>> => video_id = Some(IdAfter(form))

\* C9 witness: a url of the watch form whose identifier has '-' and '_'
\* in it gave that identifier.
C9_Witness ==
  /\ Done
  /\ IdAfter(WatchForm) # <<>>
  /\ {"-", "_"} \subseteq Range(IdAfter(WatchForm))
  /\ video_id = Some(IdAfter(WatchForm))

\* The hosts the function names: youtu.be, youtube.com, www.youtube.com and
\* the hosts of the regex, (www.)(youtube|youtu|youtube-nocookie).(com|be)
YouTubeHosts ==
  { w \o n \o t :
      w \in { <<>>, <<"w","w","w",".">> },
      n \in { <<"y","o","u","t","u","b","e">>, <<"y","o","u","t","u">>,
              <<"y","o","u","t","u","b","e","-",
                "n","o","c","o","o","k","i","e">> },
      t \in { <<".","c","o","m">>, <<".","b","e">> } }

\* The host of a url: urlparse's hostname when the url has a netloc; for a
\* url without a scheme and netloc, the text before its first '/', '?' or
\* '#', lower-cased; None otherwise
HostOfParsed(u, parsed) ==
  IF parsed.netloc # <<>> THEN Hostname(parsed.netloc)
  ELSE IF parsed.scheme = <<>> /\ FindFrom(u, 1, {"/", "?", "#"}) > 1
  THEN Some(Lower(SubSeq(u, 1, FindFrom(u, 1, {"/", "?", "#"}) - 1)))
  ELSE None

HostOf(u) == HostOfParsed(u, UrlParse(u))

\* The url's host is one of the YouTube hosts
OnYouTubeHost(host) == host.some /\ host.val \in YouTubeHosts

\* C10: for a url whose host is none of the YouTube hosts the result is
\* None, whatever its path and query.
C10_ForeignHostYieldsNone ==
  (Done /\ ~OnYouTubeHost(HostOf(url))) => video_id = None

\* C10 witness: a url on example.com whose path is a whole youtu.be url with
\* an identifier gave None.
C10_Witness ==
  /\ Done
  /\ IdAfter(S_https \o S_example_com \o <<"/">> \o ShortForm) # <<>>
  /\ video_id = None

\* ------------------------------------------------------------------------
\* Properties of the formatting of a cue (specification SpecFmt)
\* ------------------------------------------------------------------------

DigitValue(c) ==
  CASE c = "0" -> 0 [] c = "1" -> 1 [] c = "2" -> 2 [] c = "3" -> 3
    [] c = "4" -> 4 [] c = "5" -> 5 [] c = "6" -> 6 [] c = "7" -> 7
    [] c = "8" -> 8 [] c = "9" -> 9

\* The number a string of decimal digits denotes
RECURSIVE DecValue(_)
DecValue(s) ==
  IF s = <<>> THEN 0
  ELSE 10 * DecValue(SubSeq(s, 1, Len(s) - 1)) + DigitValue(s[Len(s)])

\* A decimal numeral without sign and without a leading zero
IsNumeral(s) ==
  /\ s # <<>>
  /\ \A i \in DOMAIN s : s[i] \in Digits
  /\ Len(s) > 1 => s[1] # "0"

\* The cue the handler formatted
TheCue == captions.val[1]

\* The timestamp the handler rendered for the cue: the timestamp field of
\* the subtitle, or what stands before " - " in the line
RenderedTimestamp ==
  IF op = "get_video_captions"
  THEN response.body.subtitles[1].timestamp
  ELSE SubSeq(response.body[1], 1, Len(response.body[1]) - 2)

\* ts is "M:SS" for a start of `whole` seconds
IsMinutesSeconds(ts, whole) ==
  /\ Len(ts) >= 4
  /\ ts[Len(ts) - 2] = ":"
  /\ IsNumeral(SubSeq(ts, 1, Len(ts) - 3))
  /\ ts[Len(ts) - 1] \in Digits
  /\ ts[Len(ts)] \in Digits
  /\ DecValue(SubSeq(ts, Len(ts) - 1, Len(ts))) \in 0..59
  /\ DecValue(SubSeq(ts, Len(ts) - 1, Len(ts))) = whole % 60
  /\ DecValue(SubSeq(ts, 1, Len(ts) - 3)) = whole \div 60
  /\ 60 * DecValue(SubSeq(ts, 1, Len(ts) - 3))
       + DecValue(SubSeq(ts, Len(ts) - 1, Len(ts))) = whole

S_61_01 == <<"6", "1", ":", "0", "1">>

\* C11: for a cue with a start that is not negative, both handlers render
\* the timestamp "M:SS" of the start truncated to whole seconds: the seconds
\* are two digits in 0..59, the minutes are the whole minutes and do not
\* roll over into hours (3661 seconds give "61:01"), and minutes * 60 +
\* seconds is the truncated start.  The timestamps handler's line is this
\* timestamp, " - " and the text of the cue.
C11_TimestampIsMinutesSeconds ==
  (Done /\ op \in FormatHandlers /\ response.status = 200
        /\ TheCue.start >= 0) =>
    /\ IsMinutesSeconds(RenderedTimestamp, TheCue.start \div 10)
    /\ TheCue.start \div 10 = 3661 => RenderedTimestamp = S_61_01
    /\ op = "get_video_captions" =>
         response.body.subtitles[1].start = TheCue.start \div 10
    /\ op = "get_video_timestamps" =>
         response.body[1] = RenderedTimestamp \o <<" - ", TheCue.text>>

C11_Witness ==
  /\ Done
  /\ op = "get_video_timestamps"
  /\ TheCue.start = 36619
  /\ response.body[1] = S_61_01 \o <<" - ", "text">>

\* ------------------------------------------------------------------------
\* Properties of the chain of get_video_timestamps (specification Spec)
\* ------------------------------------------------------------------------

\* line is "M:SS - text" for the cue
IsTimestampLine(line, cue) ==
  /\ Len(line) >= 6
  /\ line[Len(line)] = cue.text
  /\ line[Len(line) - 1] = " - "
  /\ IsMinutesSeconds(SubSeq(line, 1, Len(line) - 2), cue.start \div 10)

\* lines holds one line per cue, in the order of the cues
LinesOfCues(lines, cues) ==
  /\ Len(lines) = Len(cues)
  /\ \A i \in DOMAIN cues : IsTimestampLine(lines[i], cues[i])

\* The first request asks for the requested languages when there are any,
\* and for no language otherwise
IsFirstRequest(c) ==
  /\ c.api = "get_transcript"
  /\ c.video_id = video_id.val
  /\ IF languages.given /\ languages.list # <<>>
     THEN c.restricted /\ c.languages = languages.list
     ELSE ~c.restricted

\* The request that forces en
IsEnRequest(c) ==
  /\ c.api = "get_transcript"
  /\ c.video_id = video_id.val
  /\ c.restricted
  /\ c.languages = <<"en">>

\* C12: get_video_timestamps issues a first transcript request, restricted
\* to the requested languages when the list is not empty and unrestricted
\* otherwise; only when it raises, exactly one more request follows, which
\* forces en; nothing is enumerated.  The request that returns ends the call
\* with one "M:SS - text" line per cue in the order of the cues; when both
\* requests raise the call ends with status 500, and it never ends with 404.
C12_TimestampsChain ==
  op = "get_video_timestamps" =>
    /\ Len(calls) <= 2
    /\ \A i \in DOMAIN calls : calls[i].api = "get_transcript"
    /\ Len(calls) >= 1 => IsFirstRequest(calls[1])
    /\ Len(calls) = 2 => calls[1].outcome.raised /\ IsEnRequest(calls[2])
    /\ (Len(calls) = 1 /\ calls[1].outcome.raised) => pc = "ts_en"
    /\ (Len(calls) >= 1 /\ ~calls[Len(calls)].outcome.raised) =>
         /\ Done
         /\ response.status = 200
         /\ LinesOfCues(response.body, calls[Len(calls)].outcome.value)
    /\ (Len(calls) = 2 /\ calls[2].outcome.raised) =>
         Done /\ response.status = 500
    /\ response.status # 404

C12_Witness ==
  /\ Done
  /\ op = "get_video_timestamps"
  /\ languages.given /\ languages.list = <<"fr", "en">>
  /\ Len(calls) = 2
  /\ calls[1].languages = <<"fr", "en">>
  /\ ~calls[2].outcome.raised
  /\ Len(calls[2].outcome.value) = 2
  /\ response.status = 200
  /\ Len(response.body) = 2

\* ------------------------------------------------------------------------
\* Properties of the server (specification SpecServer)
\* ------------------------------------------------------------------------

\* The handler of request r waits for the answer to an upstream call
BlockedUpstream(r) == running = r /\ pc \in UpstreamPcs

\* C13: while the handler of one request waits for the answer to an upstream
\* call, the handler of every other request that has arrived can start.
C13_OthersCanStart ==
  \A r \in RequestIds : \A q \in RequestIds \ {r} :
    (BlockedUpstream(r) /\ requests[q].st = "arrived") =>
      ENABLED StartHandler(q)

\* ------------------------------------------------------------------------
\* Termination and upstream calls (specification SpecFair)
\* ------------------------------------------------------------------------

\* The apis of the calls, in order
ApisOf(cs) == [i \in DOMAIN cs |-> cs[i].api]

IsPrefix(s, t) == Len(s) <= Len(t) /\ s = SubSeq(t, 1, Len(s))

\* The states of get_video_captions in their order: the metadata call, the
\* initial request, the listing, the first listed language, en
CaptionsChain ==
  <<"oembed", "get_transcript", "list_transcripts", "get_transcript",
    "get_transcript">>

\* The states of get_video_timestamps: the initial request, en
TimestampsChain == <<"get_transcript", "get_transcript">>

\* A transcript request that returned is the last call of the run
ReturnedEndsChain ==
  \A i \in DOMAIN calls :
    (calls[i].api = "get_transcript" /\ ~calls[i].outcome.raised) =>
      i = Len(calls)

\* After a listing that raised only the request for en follows; after a
\* listing without languages nothing follows
ListingEndsChain ==
  \A i \in DOMAIN calls :
    calls[i].api = "list_transcripts" =>
      /\ calls[i].outcome.raised => Len(calls) <= i + 1
      /\ (~calls[i].outcome.raised /\ calls[i].outcome.value = <<>>) =>
           Len(calls) = i

\* The calls of the run follow the chain of the handler, every state at most
\* once and none revisited
CallsFollowChain ==
  /\ op = "get_video_captions" =>
       /\ IsPrefix(ApisOf(calls), CaptionsChain)
       /\ ReturnedEndsChain
       /\ ListingEndsChain
  /\ op = "get_video_timestamps" =>
       /\ IsPrefix(ApisOf(calls), TimestampsChain)
       /\ ReturnedEndsChain
  /\ (Done /\ calls # <<>>) => response.status \in {200, 404, 500}

\* How many steps a handler that stands at p has before it at most
PcRank(p) ==
  CASE p = "start" -> 6
    [] p = "cap_video_data" -> 5
    [] p = "cap_first" -> 4
    [] p = "cap_list" -> 3
    [] p = "cap_first_lang" -> 2
    [] p = "cap_en" -> 1
    [] p = "ts_first" -> 2
    [] p = "ts_en" -> 1
    [] p = "data_oembed" -> 1
    [] p = "done" -> 0

\* The handler waits for an answer of the transcript provider
InChain ==
  pc \in {"cap_first", "cap_list", "cap_first_lang", "cap_en",
          "ts_first", "ts_en"}

\* C14: every request of get_video_captions ends, after at most one oEmbed
\* call, then at most three transcript requests and one listing, in the
\* order of the chain and none of them twice, with success, 404 or 500;
\* every request of get_video_timestamps ends after at most two transcript
\* requests and no oEmbed or listing request.  Every step brings the handler
\* nearer to its end, so that no state of the chain is entered again, and a
\* handler that waits for the provider ends once the provider answers.
C14_BoundedChainThenDone ==
  /\ [](CallsFollowChain)
  /\ [][PcRank(pc') < PcRank(pc)]_vars
  /\ InChain ~> Done

C14_Witness ==
  /\ Done
  /\ op = "get_video_captions"
  /\ ApisOf(calls) = CaptionsChain
  /\ response.status = 404

\* ------------------------------------------------------------------------
\* Properties of two runs of get_video_captions (specification SpecPair)
\* ------------------------------------------------------------------------

IsProviderCall(c) == c.api # "oembed"

\* The requests to the transcript provider and their answers, in order
ProviderCalls(cs) == SelectSeq(cs, IsProviderCall)

\* The value under key k of a body that was returned, nothing otherwise
BodyField(r, k) == IF r.status = 200 THEN <<r.body[k]>> ELSE <<>>

\* Both runs have ended
BothDone == twin.kept /\ Done

\* "YouTube Video (id)"
DegradedTitle == Some(<<"YouTube Video (">> \o video_id.val \o <<")">>)

\* C15: two runs of get_video_captions with the same url and languages and
\* the same answers of the transcript provider end with the same status,
\* the same detail and the same subtitles, and make the same requests to the
\* provider, however the oEmbed request of each run ends; the title of a run
\* whose oEmbed request failed is "YouTube Video (id)".
C15_OEmbedDoesNotInfluenceCaptions ==
  BothDone =>
    /\ response.status = twin.response.status
    /\ response.detail = twin.response.detail
    /\ BodyField(response, "subtitles") = BodyField(twin.response, "subtitles")
    /\ ProviderCalls(calls) = ProviderCalls(twin.calls)
    /\ (calls # <<>> /\ OEmbedFailed(calls[1])) =>
         /\ title = DegradedTitle
         /\ BodyField(response, "title") \in {<<>>, <<DegradedTitle>>}

C15_Witness ==
  /\ BothDone
  /\ response.status = 200
  /\ response.body.subtitles # <<>>
  /\ ~OEmbedFailed(twin.calls[1])
  /\ calls[1].outcome.raised
  /\ response.body.title = DegradedTitle
  /\ twin.response.body.title = Some(<<"Some title">>)

\* ------------------------------------------------------------------------
\* Order of the branches of get_youtube_video_id (specification SpecId)
\* ------------------------------------------------------------------------

\* The url is one of a structured branch: its host is youtu.be, or its host
\* is youtube.com or www.youtube.com and its path is /watch or starts with
\* /embed/ or /v/
UnderStructuredBranch(parsed) ==
  \/ Hostname(parsed.netloc) = Some(S_youtu_be)
  \/ /\ Hostname(parsed.netloc) \in {Some(S_youtube_com), Some(S_www_youtube_com)}
     /\ \/ parsed.path = S_watch
        \/ StartsWith(parsed.path, S_embed)
        \/ StartsWith(parsed.path, S_v)

\* What the structured branch of such a url yields: the path without its
\* first character, the first value of v or None, the third segment of the
\* path
StructuredResult(parsed) ==
  IF Hostname(parsed.netloc) = Some(S_youtu_be)
  THEN Some(From(parsed.path, 2))
  ELSE IF parsed.path = S_watch
  THEN ParseQsFirst(parsed.query, <<"v">>)
  ELSE Some(Split(parsed.path, "/")[3])

FirstMatchWins(u, parsed, id) ==
  IF UnderStructuredBranch(parsed)
  THEN id = StructuredResult(parsed)
  ELSE id = RegexGroup6(u)

\* C16: for a url of a structured branch the result is what that branch
\* yields, whatever the regex would capture; for every other url the result
\* is what the regex captures, or None.
C16_FirstMatchWins ==
  Done => FirstMatchWins(url, UrlParse(url), video_id)

\* C16 witness: a url of a structured branch on which the regex captures an
\* identifier too, and not the one that was returned.
C16_Witness ==
  /\ Done
  /\ UnderStructuredBranch(UrlParse(url))
  /\ RegexGroup6(url).some
  /\ RegexGroup6(url) # video_id

====
